---- MODULE Spec2Model ----
(***************************************************************************)
(* Model of content/post/api_auth/src/app.py: the Flask authentication     *)
(* service with the module-level stores Users and Tokens, the per-client   *)
(* signed session cookie, the authenticate decorator and the four routed   *)
(* controllers signup, signin, signout and whoami.                         *)
(*                                                                         *)
(* Python values are modelled as follows.  A JSON body field is a TLA+     *)
(* string, "" for the empty string and None for a missing key.  A header   *)
(* value, a token and a response text are Python strings kept as           *)
(* sequences of glyphs: the glyph SP is a whitespace character and every   *)
(* other glyph is a non-blank piece of text, so that strip() and split()   *)
(* are computed.  A dict is a function whose DOMAIN is its key set.        *)
(***************************************************************************)
EXTENDS Integers, Sequences, FiniteSets, TLC

\* ------------------------------------------------------------------ bounds
MaxUuid == 2        \* number of uuid4() values drawn in one behaviour
NumThreads == 2     \* worker threads serving requests concurrently

\* ------------------------------------------------------------ input sets
Emails == {"e1", "e2"}
Passwords == {"p1", "p2"}
Sessions == {"s1", "s2"}          \* client cookie jars
Threads == 1..NumThreads

None == "None"                     \* Python None: dict.get of a missing key
SP == " "                          \* a whitespace character of a header

VARIABLES Users, Tokens, session, g, uuidCount, lastReq, resp, issued, revoked, thr

vars == <<Users, Tokens, session, g, uuidCount, lastReq, resp, issued, revoked, thr>>

\* -------------------------------------------------------- Python helpers
EmptyDict == [k \in {} |-> None]

DictGet(d, k, default) == IF k \in DOMAIN d THEN d[k] ELSE default

DictSet(d, k, v) == [x \in DOMAIN d \cup {k} |-> IF x = k THEN v ELSE d[x]]

Range(s) == {s[i] : i \in DOMAIN s}

\* `not value` for a body field: None or the empty string
Falsy(v) == v = None \/ v = ""

\* sha256(password.encode()).hexdigest(): one-way and collision free
sha256(p) == <<"sha256", p>>

\* str(uuid4()) for the n-th draw: a fresh one-word string
uuid4(n) == <<"u" \o ToString(n)>>

\* str.strip(): drop leading and trailing whitespace
RECURSIVE LStrip(_)
LStrip(s) == IF s # <<>> /\ Head(s) = SP THEN LStrip(Tail(s)) ELSE s

RECURSIVE RStrip(_)
RStrip(s) ==
    IF s # <<>> /\ s[Len(s)] = SP THEN RStrip(SubSeq(s, 1, Len(s) - 1)) ELSE s

Strip(s) == RStrip(LStrip(s))

\* str.split(): the maximal runs of non-whitespace characters, in order
RECURSIVE SplitFrom(_, _, _)
SplitFrom(s, cur, acc) ==
    IF s = <<>>
    THEN IF cur = <<>> THEN acc ELSE Append(acc, cur)
    ELSE IF Head(s) = SP
         THEN SplitFrom(Tail(s), <<>>, IF cur = <<>> THEN acc ELSE Append(acc, cur))
         ELSE SplitFrom(Tail(s), Append(cur, Head(s)), acc)

Split(s) == SplitFrom(s, <<>>, <<>>)

Response(body, status) == [status |-> status, body |-> body]

\* no response (yet); also the None that require returns for "no error"
NoResponse == Response(<<>>, 0)

\* ------------------------------------------------ request body validation
\* require(keys, data): the first key, in order, whose value is missing or
\* empty gives the 400 error; otherwise the params restricted to keys.
RECURSIVE RequireFrom(_, _, _)
RequireFrom(keys, data, params) ==
    IF keys = <<>>
    THEN [params |-> params, err |-> NoResponse]
    ELSE LET key == Head(keys)
             value == DictGet(data, key, None)
         IN  IF Falsy(value)
             THEN [params |-> EmptyDict,
                   err |-> Response(<<"Invalid parameter:", key, "missing">>, 400)]
             ELSE RequireFrom(Tail(keys), data, DictSet(params, key, value))

\* Faulty variant: the keys are examined from the last to the first.
require_Reversed(keys, data) ==
    RequireFrom([i \in 1..Len(keys) |-> keys[Len(keys) + 1 - i]], data, EmptyDict)

require(keys, data) == RequireFrom(keys, data, EmptyDict)


\* --------------------------------------------------------------- requests
\* Well-formed bodies: either profile (name, password) with either email.
Profiles == {<<"n1", "p1">>, <<"n2", "p2">>}

ValidSignupBodies ==
    {[name |-> pr[1], email |-> e, password |-> pr[2]] : pr \in Profiles, e \in Emails}

ValidSigninBodies == [email : Emails, password : Passwords]

\* Malformed bodies: one well-formed body with any of its fields missing
\* (None) or empty ("").
SignupBodies ==
    ValidSignupBodies
        \cup [name : {"n1", None, ""}, email : {"e1", None, ""}, password : {"p1", None, ""}]

SigninBodies ==
    ValidSigninBodies \cup [email : {"e1", None, ""}, password : {"p1", None, ""}]

\* Authorization header values: empty, the scheme alone (what a client sends
\* for an empty token), the scheme with each uuid, a bare uuid with a
\* trailing blank, and a word that only starts like a uuid.
AuthValues ==
    {<<>>, <<"Bearer", SP>>, uuid4(1) \o <<SP>>, <<"Bearer", SP>> \o uuid4(1) \o <<"x">>}
        \cup {<<"Bearer", SP>> \o uuid4(n) : n \in 1..MaxUuid}

HandshakeValues == {<<"hs">>}

\* No header, either header alone, or a well-formed Authorization header
\* together with a Handshake header.
RequestHeaders ==
    {EmptyDict}
        \cup {DictSet(EmptyDict, "Authorization", a) : a \in AuthValues}
        \cup {DictSet(EmptyDict, "Handshake", h) : h \in HandshakeValues}
        \cup {DictSet(DictSet(EmptyDict, "Authorization", <<"Bearer", SP>> \o uuid4(n)),
                       "Handshake", h) : n \in 1..MaxUuid, h \in HandshakeValues}

Request(op, s, data, headers) ==
    [op |-> op, sess |-> s, data |-> data, headers |-> headers]

IdleThread ==
    [pc |-> "idle", op |-> "none", sess |-> None, data |-> EmptyDict, token |-> <<>>,
     resp |-> NoResponse]

\* ------------------------------------------------------------------- Init
Init ==
    /\ Users = EmptyDict
    /\ Tokens = EmptyDict
    /\ session = [s \in Sessions |-> EmptyDict]
    /\ g = EmptyDict
    /\ uuidCount = 0
    /\ lastReq = Request("init", None, EmptyDict, EmptyDict)
    /\ resp = NoResponse
    /\ issued = {}
    /\ revoked = {}
    /\ thr = [t \in Threads |-> IdleThread]

\* ------------------------------------------------- authentication guard
\* Faulty variant: the token is looked up in the lists of all emails.
TokenValid_AnyEmail(token, email, Tk) == \E e \in DOMAIN Tk : token \in Range(Tk[e])

\* token not in Tokens.get(email, [])
TokenValid(token, email, Tk) == token \in Range(DictGet(Tk, email, <<>>))

\* Faulty variant: the lookup stores a fresh {} under the key every time.
UsersItem_Reset(U, email) == DictSet(U, email, EmptyDict)

\* Users[email] on the defaultdict: a missing key is inserted as {}
UsersItem(U, email) == IF email \in DOMAIN U THEN U ELSE DictSet(U, email, EmptyDict)

\* request.headers.get("Authorization", "").strip().split()
BearerWords(headers) == Split(Strip(DictGet(headers, "Authorization", <<>>)))

\* bearer[-1]
LastWord(bearer) == bearer[Len(bearer)]

\* Faulty variant: the user resolved by an earlier request is still in g.
Rejected_StaleG(U, body) ==
    [ok |-> FALSE, resp |-> Response(body, 401), Users |-> U, g |-> g]

Rejected(U, body) ==
    [ok |-> FALSE, resp |-> Response(body, 401), Users |-> U, g |-> EmptyDict]

\* Faulty variant: the bearer is extracted before the session user is read.
authenticate_BearerFirst(sess, headers, U, Tk) ==
    LET email == DictGet(sess, "user", None)
        bearer == BearerWords(headers)
    IN  IF bearer = <<>>
        THEN Rejected(U, <<"Authentication bearer missing">>)
        ELSE IF Falsy(email)
        THEN Rejected(U, <<"Authentication cookie missing">>)
        ELSE IF ~TokenValid(LastWord(bearer), email, Tk)
        THEN Rejected(U, <<"Invalid token">>)
        ELSE [ok |-> TRUE, resp |-> NoResponse, Users |-> UsersItem(U, email),
              g |-> DictSet(EmptyDict, "user", UsersItem(U, email)[email])]

\* Faulty variant: the resolved user is not the one of the session's email.
authenticate_FirstUser(sess, headers, U, Tk) ==
    LET email == DictGet(sess, "user", None)
        bearer == BearerWords(headers)
    IN  IF Falsy(email)
        THEN Rejected(U, <<"Authentication cookie missing">>)
        ELSE IF bearer = <<>>
        THEN Rejected(U, <<"Authentication bearer missing">>)
        ELSE IF ~TokenValid(LastWord(bearer), email, Tk)
        THEN Rejected(U, <<"Invalid token">>)
        ELSE [ok |-> TRUE, resp |-> NoResponse, Users |-> U,
              g |-> DictSet(EmptyDict, "user", U[CHOOSE e \in DOMAIN U : TRUE])]

\* authenticate.inner up to the call of the wrapped function
authenticate(sess, headers, U, Tk) ==
    LET email == DictGet(sess, "user", None)
        bearer == BearerWords(headers)
    IN  IF Falsy(email)
        THEN Rejected(U, <<"Authentication cookie missing">>)
        ELSE IF bearer = <<>>
        THEN Rejected(U, <<"Authentication bearer missing">>)
        ELSE IF ~TokenValid(LastWord(bearer), email, Tk)
        THEN Rejected(U, <<"Invalid token">>)
        ELSE [ok |-> TRUE, resp |-> NoResponse, Users |-> UsersItem(U, email),
              g |-> DictSet(EmptyDict, "user", UsersItem(U, email)[email])]

\* ------------------------------------------------------------ controllers
\* jsonify(email=..., name=...): the JSON text of the two fields
jsonify(email, name) == <<"{email:", email, "name:", name, "}">>

UserRecord(params) ==
    [email |-> params["email"], name |-> params["name"],
     password |-> sha256(params["password"])]

\* Faulty variant: the existence check is skipped.
UserExists_Never(email, U) == FALSE

\* params["email"] in Users
UserExists(email, U) == email \in DOMAIN U

Signup(data) ==
    LET r == require(<<"name", "email", "password">>, data) IN
    /\ lastReq' = Request("signup", None, data, EmptyDict)
    /\ g' = EmptyDict
    /\ IF r.err # NoResponse
       THEN resp' = r.err /\ Users' = Users
       ELSE IF UserExists(r.params["email"], Users)
       THEN /\ resp' = Response(<<"User", r.params["email"], "already exists">>, 409)
            /\ Users' = Users
       ELSE /\ Users' = DictSet(Users, r.params["email"], UserRecord(r.params))
            /\ resp' = Response(<<"Created">>, 201)
    /\ UNCHANGED <<Tokens, session, uuidCount, issued, revoked, thr>>

\* not user or user["password"] != sha256(password).hexdigest()
BadCredentials(params, U) ==
    \/ params["email"] \notin DOMAIN U
    \/ DOMAIN U[params["email"]] = {}
    \/ U[params["email"]].password # sha256(params["password"])

\* Faulty variant: the list of the email is replaced by the new token alone.
TokensAppend_Replace(Tk, email, token) == DictSet(Tk, email, <<token>>)

\* Faulty variant: the token is filed under another email than the user's.
TokensAppend_OtherEmail(Tk, email, token) ==
    LET other == CHOOSE e \in Emails : e # email
    IN  DictSet(Tk, other, Append(DictGet(Tk, other, <<>>), token))

\* Tokens[user["email"]].append(token) on the defaultdict(list)
TokensAppend(Tk, email, token) ==
    DictSet(Tk, email, Append(DictGet(Tk, email, <<>>), token))

Signin(s, data) ==
    LET r == require(<<"email", "password">>, data) IN
    /\ lastReq' = Request("signin", s, data, EmptyDict)
    /\ g' = EmptyDict
    /\ IF r.err # NoResponse
       THEN resp' = r.err /\ UNCHANGED <<Tokens, session, uuidCount, issued>>
       ELSE IF BadCredentials(r.params, Users)
       THEN /\ resp' = Response(<<"Unauthorized">>, 403)
            /\ UNCHANGED <<Tokens, session, uuidCount, issued>>
       ELSE LET user == Users[r.params["email"]]
                token == uuid4(uuidCount + 1)
            IN  /\ uuidCount < MaxUuid
                /\ uuidCount' = uuidCount + 1
                /\ Tokens' = TokensAppend(Tokens, user.email, token)
                /\ session' = [session EXCEPT ![s] = DictSet(@, "user", user.email)]
                /\ resp' = Response(token, 200)
                /\ issued' = issued \cup {[token |-> token, email |-> user.email, sess |-> s]}
    /\ UNCHANGED <<Users, revoked, thr>>

\* The tokens a signout of this session is to revoke (history only).
TokensOfSessionUser(sess, Tk) ==
    IF "user" \in DOMAIN sess
    THEN {<<sess["user"], t>> : t \in Range(DictGet(Tk, sess["user"], <<>>))}
    ELSE {}

\* session.clear(); return 200.  A bare int is no valid Flask response: the
\* request ends as 500 Internal Server Error, the cleared session is saved.
Signout(s) ==
    /\ lastReq' = Request("signout", s, EmptyDict, EmptyDict)
    /\ g' = EmptyDict
    /\ session' = [session EXCEPT ![s] = EmptyDict]
    /\ resp' = Response(<<"Internal Server Error">>, 500)
    /\ revoked' = revoked \cup TokensOfSessionUser(session[s], Tokens)
    /\ UNCHANGED <<Users, Tokens, uuidCount, issued, thr>>

\* Faulty variant: a rejected request also clears the session.
Whoami_ClearsSession(s, headers) ==
    LET a == authenticate(session[s], headers, Users, Tokens) IN
    /\ lastReq' = Request("whoami", s, EmptyDict, headers)
    /\ g' = a.g
    /\ Users' = a.Users
    /\ session' = IF a.ok THEN session ELSE [session EXCEPT ![s] = EmptyDict]
    /\ resp' = IF ~a.ok THEN a.resp
               ELSE IF {"email", "name"} \subseteq DOMAIN a.g["user"]
               THEN Response(jsonify(a.g["user"].email, a.g["user"].name), 200)
               ELSE Response(<<"Internal Server Error">>, 500)
    /\ UNCHANGED <<Tokens, uuidCount, issued, revoked, thr>>

\* whoami behind @authenticate: user = g.user; jsonify(email, name), 200
Whoami(s, headers) ==
    LET a == authenticate(session[s], headers, Users, Tokens) IN
    /\ lastReq' = Request("whoami", s, EmptyDict, headers)
    /\ g' = a.g
    /\ Users' = a.Users
    /\ resp' = IF ~a.ok THEN a.resp
               ELSE IF {"email", "name"} \subseteq DOMAIN a.g["user"]
               THEN Response(jsonify(a.g["user"].email, a.g["user"].name), 200)
               ELSE Response(<<"Internal Server Error">>, 500)
    /\ UNCHANGED <<Tokens, session, uuidCount, issued, revoked, thr>>

Next ==
    \/ \E data \in SignupBodies : Signup(data)
    \/ \E s \in Sessions, data \in SigninBodies : Signin(s, data)
    \/ \E s \in Sessions : Signout(s)
    \/ \E s \in Sessions, headers \in RequestHeaders : Whoami(s, headers)

Spec == Init /\ [][Next]_vars

\* ------------------------------------------------- concurrent threads
\* Requests served by different threads interleave between the statements
\* of the handlers; each thread serves one request.  signup reads the store
\* at line 55 and writes it at line 58.  signin reads the store at line 72,
\* fetches the token list of the email at line 78 (the defaultdict inserts
\* an empty list for a missing key) and then appends to that list object.
Thread(pc, op, s, data, token, response) ==
    [pc |-> pc, op |-> op, sess |-> s, data |-> data, token |-> token, resp |-> response]

\* The stores that sequential signups leave behind.
RegisteredStores ==
    UNION {[D -> {UserRecord(b) : b \in ValidSignupBodies}] : D \in SUBSET Emails}

InitConc ==
    /\ Users \in {U \in RegisteredStores : \A e \in DOMAIN U : U[e].email = e}
    /\ Tokens = EmptyDict
    /\ session = [s \in Sessions |-> EmptyDict]
    /\ g = EmptyDict
    /\ uuidCount = 0
    /\ lastReq = Request("init", None, EmptyDict, EmptyDict)
    /\ resp = NoResponse
    /\ issued = {}
    /\ revoked = {}
    /\ thr = [t \in Threads |-> IdleThread]

SignupCheck(t, data) ==
    LET r == require(<<"name", "email", "password">>, data) IN
    /\ thr[t].pc = "idle"
    /\ thr' = [thr EXCEPT ![t] =
                 IF r.err # NoResponse
                 THEN Thread("done", "signup", None, data, <<>>, r.err)
                 ELSE IF UserExists(r.params["email"], Users)
                 THEN Thread("done", "signup", None, data, <<>>,
                             Response(<<"User", r.params["email"], "already exists">>, 409))
                 ELSE Thread("write", "signup", None, r.params, <<>>, NoResponse)]
    /\ UNCHANGED <<Users, Tokens, session, g, uuidCount, lastReq, resp, issued, revoked>>

SignupWrite(t) ==
    /\ thr[t].pc = "write"
    /\ Users' = DictSet(Users, thr[t].data["email"], UserRecord(thr[t].data))
    /\ thr' = [thr EXCEPT ![t] = Thread("done", "signup", None, @.data, <<>>,
                                        Response(<<"Created">>, 201))]
    /\ UNCHANGED <<Tokens, session, g, uuidCount, lastReq, resp, issued, revoked>>

\* signin lines 68-77: validation, credential check, token = str(uuid4())
SigninCheck(t, s, data) ==
    LET r == require(<<"email", "password">>, data) IN
    /\ thr[t].pc = "idle"
    /\ IF r.err # NoResponse
       THEN /\ thr' = [thr EXCEPT ![t] = Thread("done", "signin", s, data, <<>>, r.err)]
            /\ UNCHANGED uuidCount
       ELSE IF BadCredentials(r.params, Users)
       THEN /\ thr' = [thr EXCEPT ![t] = Thread("done", "signin", s, data, <<>>,
                                               Response(<<"Unauthorized">>, 403))]
            /\ UNCHANGED uuidCount
       ELSE /\ uuidCount < MaxUuid
            /\ uuidCount' = uuidCount + 1
            /\ thr' = [thr EXCEPT ![t] = Thread("getlist", "signin", s, r.params,
                                               uuid4(uuidCount + 1), NoResponse)]
    /\ UNCHANGED <<Users, Tokens, session, g, lastReq, resp, issued, revoked>>

\* Faulty variant: the list of the email is set to a new empty list.
SigninGetList_Fresh(t) ==
    /\ thr[t].pc = "getlist"
    /\ Tokens' = DictSet(Tokens, thr[t].data["email"], <<>>)
    /\ thr' = [thr EXCEPT ![t].pc = "append"]
    /\ UNCHANGED <<Users, session, g, uuidCount, lastReq, resp, issued, revoked>>

\* signin line 78, Tokens[user["email"]]: the list stored under the email,
\* an empty one being stored first if the key is missing
SigninGetList(t) ==
    /\ thr[t].pc = "getlist"
    /\ Tokens' = IF thr[t].data["email"] \in DOMAIN Tokens
                 THEN Tokens
                 ELSE DictSet(Tokens, thr[t].data["email"], <<>>)
    /\ thr' = [thr EXCEPT ![t].pc = "append"]
    /\ UNCHANGED <<Users, session, g, uuidCount, lastReq, resp, issued, revoked>>

\* signin lines 78-80: .append(token) on that list, session["user"], return
SigninAppend(t) ==
    /\ thr[t].pc = "append"
    /\ Tokens' = TokensAppend(Tokens, thr[t].data["email"], thr[t].token)
    /\ session' = [session EXCEPT ![thr[t].sess] = DictSet(@, "user", thr[t].data["email"])]
    /\ issued' = issued \cup {[token |-> thr[t].token, email |-> thr[t].data["email"],
                               sess |-> thr[t].sess]}
    /\ thr' = [thr EXCEPT ![t].pc = "done", ![t].resp = Response(thr[t].token, 200)]
    /\ UNCHANGED <<Users, g, uuidCount, lastReq, resp, revoked>>

NextConc ==
    \/ \E t \in Threads, data \in SignupBodies : SignupCheck(t, data)
    \/ \E t \in Threads : SignupWrite(t)
    \/ \E t \in Threads, s \in Sessions, data \in SigninBodies : SigninCheck(t, s, data)
    \/ \E t \in Threads : SigninGetList(t)
    \/ \E t \in Threads : SigninAppend(t)

SpecConc == InitConc /\ [][NextConc]_vars

\* ================================================================ properties
\* The request that produced the current state is lastReq and its response
\* is resp: in a step, the primed lastReq names the request being served and
\* the unprimed variables are the state it was served in.

SessionUser(s) == DictGet(session[s], "user", None)

WellFormed(data, keys) == \A k \in keys : ~Falsy(DictGet(data, k, None))

\* C1: a signout in a session bound to user E leaves the token registry with
\* no token of E, and the token lists of every other email as they were.
C1_SignoutRevokesAll ==
    [][(lastReq'.op = "signout" /\ "user" \in DOMAIN session[lastReq'.sess]) =>
         LET E == session[lastReq'.sess]["user"] IN
         /\ DictGet(Tokens', E, <<>>) = <<>>
         /\ \A e \in Emails \ {E} : DictGet(Tokens', e, <<>>) = DictGet(Tokens, e, <<>>)]_vars

\* C2: a token that was registered for E when a session bound to E signed
\* out is rejected (401) by every later whoami, whichever session sends it,
\* and with "Invalid token" when that session is bound to E.
C2_RevokedTokenRejected ==
    (lastReq.op = "whoami" /\ BearerWords(lastReq.headers) # <<>>) =>
        \A E \in Emails :
            <<E, LastWord(BearerWords(lastReq.headers))>> \in revoked =>
                /\ resp.status = 401
                /\ SessionUser(lastReq.sess) = E => resp.body = <<"Invalid token">>

\* C3: whoami is accepted only with a bearer token that is in the registry
\* list of the session's email, and answers with the user of that email; a
\* token issued to email E is rejected in a session bound to another email.
C3_TokenBoundToEmail ==
    lastReq.op = "whoami" =>
        LET sess == session[lastReq.sess]
            words == BearerWords(lastReq.headers)
        IN  /\ resp.status = 200 =>
                /\ "user" \in DOMAIN sess
                /\ words # <<>>
                /\ LastWord(words) \in Range(DictGet(Tokens, sess["user"], <<>>))
                /\ g["user"].email = sess["user"]
                /\ resp.body = jsonify(sess["user"], Users[sess["user"]].name)
            /\ \A i \in issued :
                (/\ words # <<>>
                 /\ LastWord(words) = i.token
                 /\ DictGet(sess, "user", None) # i.email) => resp.status = 401

\* A session bound to one email sent a token issued to the other email, while
\* holding a valid token of its own, and was answered "Invalid token".
C3_Witness ==
    /\ lastReq.op = "whoami"
    /\ resp = Response(<<"Invalid token">>, 401)
    /\ DictGet(Tokens, SessionUser(lastReq.sess), <<>>) # <<>>
    /\ \E i \in issued :
        /\ BearerWords(lastReq.headers) = <<<<"Bearer">>, i.token>>
        /\ i.email # SessionUser(lastReq.sess)
        /\ TokenValid(i.token, i.email, Tokens)

\* C4: a bearer token that is registered for the session's user but was
\* issued to a different session is rejected with "Invalid token" (the guard
\* also requires the token the session itself was given).
C4_OtherSessionTokenRejected ==
    lastReq.op = "whoami" =>
        \A i \in issued :
            (/\ BearerWords(lastReq.headers) # <<>>
             /\ LastWord(BearerWords(lastReq.headers)) = i.token
             /\ i.sess # lastReq.sess
             /\ SessionUser(lastReq.sess) = i.email
             /\ TokenValid(i.token, i.email, Tokens))
                => resp = Response(<<"Invalid token">>, 401)

\* C5: a whoami whose Handshake header differs from the nonce of the session
\* (one of them absent, or both present and different) is answered
\* "Handshake failed", 401, whatever the session user and the bearer are.
C5_HandshakeCheckedFirst ==
    (/\ lastReq.op = "whoami"
     /\ DictGet(session[lastReq.sess], "handshake", <<>>)
            # DictGet(lastReq.headers, "Handshake", <<>>))
        => resp = Response(<<"Handshake failed">>, 401)

\* C6: a whoami in a session that names no user is answered
\* "Authentication cookie missing", 401, with or without an Authorization
\* header.
C6_SessionCheckedBeforeBearer ==
    (lastReq.op = "whoami" /\ "user" \notin DOMAIN session[lastReq.sess])
        => resp = Response(<<"Authentication cookie missing">>, 401)

\* No session user and no bearer either, while tokens are registered.
C6_Witness ==
    /\ lastReq.op = "whoami"
    /\ "user" \notin DOMAIN session[lastReq.sess]
    /\ BearerWords(lastReq.headers) = <<>>
    /\ resp = Response(<<"Authentication cookie missing">>, 401)
    /\ \E e \in DOMAIN Tokens : Tokens[e] # <<>>

\* C7: a signup for an email that already has a user leaves the store as it
\* was (the one record of that email keeps its name and password hash), and
\* a well-formed one is answered 409.
C7_DuplicateSignupConflict ==
    [][(lastReq'.op = "signup" /\ lastReq'.data.email \in DOMAIN Users) =>
         /\ Users' = Users
         /\ WellFormed(lastReq'.data, {"name", "email", "password"})
                => resp'.status = 409]_vars

\* A second signup with another name and password was answered 409 and the
\* first record is still the stored one.
C7_Witness ==
    /\ lastReq.op = "signup"
    /\ resp.status = 409
    /\ Users[lastReq.data.email].name # lastReq.data.name
    /\ Users[lastReq.data.email].password # sha256(lastReq.data.password)

\* C8: of two finished concurrent well-formed signups for the same email
\* with different name and password, exactly one was answered 201 and the other 409, and the stored record is
\* the one of the request answered 201.
C8_AtomicCreate ==
    \A t1, t2 \in Threads :
        (/\ t1 # t2
         /\ thr[t1].pc = "done" /\ thr[t2].pc = "done"
         /\ WellFormed(thr[t1].data, {"name", "email", "password"})
         /\ WellFormed(thr[t2].data, {"name", "email", "password"})
         /\ thr[t1].data["email"] = thr[t2].data["email"]
         /\ thr[t1].data # thr[t2].data
         /\ thr[t1].resp.status = 201)
            => /\ thr[t2].resp.status = 409
               /\ Users[thr[t1].data["email"]] = UserRecord(thr[t1].data)

\* C9: a well-formed signin with an unknown email or a wrong password is
\* answered "Unauthorized", 401 in both cases, issues no token and changes
\* neither the registry, the store nor the session.
C9_BadCredentials401 ==
    [][(/\ lastReq'.op = "signin"
        /\ WellFormed(lastReq'.data, {"email", "password"})
        /\ \/ lastReq'.data.email \notin DOMAIN Users
           \/ Users[lastReq'.data.email].password # sha256(lastReq'.data.password))
         => /\ resp' = Response(<<"Unauthorized">>, 401)
            /\ UNCHANGED <<Users, Tokens, session, uuidCount>>]_vars

\* C10: a well-formed signin with the stored password is answered 200 with a
\* token that was in no registry list, appends it to the list of the email,
\* and leaves the session with user = the email and token = that token.
C10_SigninRecordsUserAndToken ==
    [][(/\ lastReq'.op = "signin"
        /\ WellFormed(lastReq'.data, {"email", "password"})
        /\ lastReq'.data.email \in DOMAIN Users
        /\ Users[lastReq'.data.email].password = sha256(lastReq'.data.password))
         => LET E == lastReq'.data.email
                T == resp'.body
            IN  /\ resp'.status = 200
                /\ \A e \in Emails : ~TokenValid(T, e, Tokens)
                /\ DictGet(Tokens', E, <<>>) = Append(DictGet(Tokens, E, <<>>), T)
                /\ DictGet(session'[lastReq'.sess], "user", None) = E
                /\ DictGet(session'[lastReq'.sess], "token", <<>>) = T]_vars

\* C11: the tokens issued so far are pairwise distinct and as many as the
\* successful signins; every one issued to E with no signout of E since is
\* in the registry list of E, is accepted by the guard in a session bound to
\* E and is rejected in a session bound to any other email.
C11_TokensCoexist ==
    /\ Cardinality(issued) = uuidCount
    /\ \A i, j \in issued : i.token = j.token => i = j
    /\ \A i \in issued :
        <<i.email, i.token>> \notin revoked =>
            /\ i.token \in Range(DictGet(Tokens, i.email, <<>>))
            /\ \A e \in Emails :
                authenticate(DictSet(EmptyDict, "user", e),
                             DictSet(EmptyDict, "Authorization", <<"Bearer", SP>> \o i.token),
                             Users, Tokens).ok <=> e = i.email

\* Two tokens of one email coexist, no signout has happened, and a whoami
\* with the earlier one was accepted after the later one was issued.
C11_Witness ==
    /\ revoked = {}
    /\ lastReq.op = "whoami"
    /\ resp.status = 200
    /\ \E e \in DOMAIN Tokens :
        /\ Len(Tokens[e]) >= 2
        /\ SessionUser(lastReq.sess) = e
        /\ BearerWords(lastReq.headers) = <<<<"Bearer">>, Tokens[e][1]>>

\* C12: every signout is answered 200 with the body "Signout" and leaves the
\* session with no user, no token and no handshake nonce.
C12_SignoutAlways200 ==
    lastReq.op = "signout" =>
        /\ resp = Response(<<"Signout">>, 200)
        /\ session[lastReq.sess] = EmptyDict

\* C13: a whoami in a session that names a user, with the Authorization
\* header absent or empty, is answered "Authentication token missing", 401.
C13_MissingBearerToken ==
    (/\ lastReq.op = "whoami"
     /\ "user" \in DOMAIN session[lastReq.sess]
     /\ DictGet(lastReq.headers, "Authorization", <<>>) = <<>>)
        => resp = Response(<<"Authentication token missing">>, 401)

\* C14: a whoami that passes every guard step (session user E, bearer token
\* in the registry list of E, Handshake header equal to the nonce if the
\* session holds one) is answered 200 with the email and name of the record
\* stored for E, and g.user is that record.
C14_WhoamiReturnsStoredUser ==
    LET sess == session[lastReq.sess]
        words == BearerWords(lastReq.headers)
        E == sess["user"]
    IN  (/\ lastReq.op = "whoami"
         /\ "user" \in DOMAIN sess
         /\ words # <<>>
         /\ LastWord(words) \in Range(DictGet(Tokens, E, <<>>))
         /\ "handshake" \in DOMAIN sess
                => DictGet(lastReq.headers, "Handshake", <<>>) = sess["handshake"])
            => /\ E \in DOMAIN Users
               /\ Users[E].email = E
               /\ resp = Response(<<"{email:", E, "name:", Users[E].name, "}">>, 200)
               /\ g = DictSet(EmptyDict, "user", Users[E])

\* An accepted whoami while two users are registered.
C14_Witness ==
    /\ lastReq.op = "whoami"
    /\ resp.status = 200
    /\ Cardinality(DOMAIN Users) = 2
    /\ g["user"].email = SessionUser(lastReq.sess)

\* C15: g holds a user only in the state of an accepted whoami; a whoami
\* that fails a guard step is answered 401 by the guard (the wrapped
\* function has produced no response) and leaves g without a user.
C15_RejectedLeavesNoUser ==
    /\ "user" \in DOMAIN g => (lastReq.op = "whoami" /\ resp.status = 200)
    /\ (/\ lastReq.op = "whoami"
        /\ \/ "user" \notin DOMAIN session[lastReq.sess]
           \/ BearerWords(lastReq.headers) = <<>>
           \/ LastWord(BearerWords(lastReq.headers))
                \notin Range(DictGet(Tokens, SessionUser(lastReq.sess), <<>>)))
            => /\ resp.status = 401
               /\ resp.body \in {<<"Authentication cookie missing">>,
                                 <<"Authentication bearer missing">>, <<"Invalid token">>}
               /\ g = EmptyDict

\* A whoami rejected for its token in a session whose user has a valid token.
C15_Witness ==
    /\ lastReq.op = "whoami"
    /\ resp = Response(<<"Invalid token">>, 401)
    /\ g = EmptyDict
    /\ DictGet(Tokens, SessionUser(lastReq.sess), <<>>) # <<>>
    /\ \A i \in issued : LastWord(BearerWords(lastReq.headers)) # i.token

\* C17: no request changes or removes the record stored for an email.
C17_UserRecordImmutable ==
    [][\A e \in DOMAIN Users : e \in DOMAIN Users' /\ Users'[e] = Users[e]]_vars

\* A user whose tokens a signout was to revoke has since been resolved by an
\* accepted whoami: the record went through signin, signout and whoami.
C17_Witness ==
    /\ lastReq.op = "whoami"
    /\ resp.status = 200
    /\ \E p \in revoked : p[1] = SessionUser(lastReq.sess)
    /\ g["user"] = Users[SessionUser(lastReq.sess)]

\* C18: a signup (keys name, email, password) or signin (keys email,
\* password) in which some key is missing or empty is answered 400 naming
\* the first such key, and changes neither the store, the registry nor the
\* session.
C18_MissingFieldRejected ==
    [][LET d == lastReq'.data
           keys == IF lastReq'.op = "signup"
                   THEN <<"name", "email", "password">>
                   ELSE <<"email", "password">>
           missing == {i \in 1..Len(keys) : DictGet(d, keys[i], None) \in {None, ""}}
       IN  (lastReq'.op \in {"signup", "signin"} /\ missing # {}) =>
               /\ resp' = Response(<<"Invalid parameter:",
                                     keys[CHOOSE i \in missing : \A j \in missing : i <= j],
                                     "missing">>, 400)
               /\ UNCHANGED <<Users, Tokens, session, uuidCount>>]_vars

\* A signup without a name and with an empty password was answered 400
\* naming the name.
C18_Witness ==
    /\ lastReq.op = "signup"
    /\ lastReq.data.name = None
    /\ lastReq.data.password = ""
    /\ resp = Response(<<"Invalid parameter:", "name", "missing">>, 400)

\* C19: every email with a token in the registry has a complete user record
\* in the store, and no whoami ends in a failed user lookup (500).
C19_TokensOnlyForUsers ==
    /\ \A e \in DOMAIN Tokens :
        Tokens[e] # <<>> =>
            /\ e \in DOMAIN Users
            /\ DOMAIN Users[e] = {"email", "name", "password"}
    /\ lastReq.op = "whoami" => resp.status # 500

\* A token was matched and the user looked up while only one of the emails
\* has a user.
C19_Witness ==
    /\ lastReq.op = "whoami"
    /\ resp.status = 200
    /\ Cardinality(DOMAIN Users) = 1
    /\ DOMAIN Tokens = DOMAIN Users

\* C20: a whoami request, accepted or rejected, leaves the store, the
\* registry and the session as they were.
C20_GuardReadOnly ==
    [][lastReq'.op = "whoami" => UNCHANGED <<Users, Tokens, session>>]_vars

\* A whoami was rejected for its token while an email has neither a user
\* nor a registry entry.
C20_Witness ==
    /\ lastReq.op = "whoami"
    /\ resp = Response(<<"Invalid token">>, 401)
    /\ DOMAIN Users # Emails
    /\ DOMAIN Tokens \subseteq DOMAIN Users
    /\ "user" \in DOMAIN session[lastReq.sess]

\* C16: of two finished concurrent successful signins for the same email,
\* the two returned tokens differ and are both in the registry list of the
\* email, and the session of each is bound to the email (unless another
\* finished signin has bound that session to another email).
C16_AtomicIssue ==
    \A t1, t2 \in Threads :
        (/\ t1 # t2
         /\ thr[t1].op = "signin" /\ thr[t2].op = "signin"
         /\ thr[t1].pc = "done" /\ thr[t2].pc = "done"
         /\ thr[t1].resp.status = 200 /\ thr[t2].resp.status = 200
         /\ thr[t1].data["email"] = thr[t2].data["email"])
            => LET E == thr[t1].data["email"] IN
               /\ thr[t1].resp.body # thr[t2].resp.body
               /\ {thr[t1].resp.body, thr[t2].resp.body} \subseteq Range(DictGet(Tokens, E, <<>>))
               /\ \A t \in {t1, t2} :
                    (\A u \in Threads :
                        (/\ thr[u].op = "signin" /\ thr[u].pc = "done"
                         /\ thr[u].resp.status = 200
                         /\ thr[u].sess = thr[t].sess) => thr[u].data["email"] = E)
                        => SessionUser(thr[t].sess) = E

\* Two signins for one email, from different sessions, have both finished
\* with 200 and the email had no registry list when they started.
C16_Witness ==
    \E t1, t2 \in Threads :
        /\ t1 # t2
        /\ thr[t1].op = "signin" /\ thr[t2].op = "signin"
        /\ thr[t1].pc = "done" /\ thr[t2].pc = "done"
        /\ thr[t1].resp.status = 200 /\ thr[t2].resp.status = 200
        /\ thr[t1].data["email"] = thr[t2].data["email"]
        /\ thr[t1].sess # thr[t2].sess
        /\ Len(Tokens[thr[t1].data["email"]]) = 2

====
